---- MODULE Spec2Model ----
(***************************************************************************)
(* Commit engine of the Alberti Protocol SDK.                              *)
(*                                                                         *)
(* The repository holds two implementations of the engine:                 *)
(*   "index"   src/index.js           (eth-crypto, keccak256, "0x" digest) *)
(*   "part003" src/unnamed/part_003   (elliptic p521, SHA-256, bare hex)   *)
(* Both are modelled; the variable impl says which one a behaviour runs.   *)
(*                                                                         *)
(* JavaScript values are tagged records, so that values of different       *)
(* JavaScript types are different values and === is plain equality:        *)
(*   [k |-> "null"]  [k |-> "undef"]  [k |-> "num", n |-> 7]               *)
(*   [k |-> "str", s |-> <<"a","b">>]     a string, as its characters      *)
(*   [k |-> "arr", a |-> <<v1, v2>>]      an array                         *)
(*   [k |-> "obj", o |-> [f |-> v, ...]]  a plain object, own properties   *)
(*   [k |-> "sig", signer |-> pk, over |-> digest]                         *)
(*       a well-formed signature string made by the key pair of pk over    *)
(*       digest (the signature scheme is an external library, idealised)   *)
(* A call's outcome is "true", "false" or "throw" (an exception leaves it).*)
(***************************************************************************)
EXTENDS Integers, Sequences, FiniteSets

\* ------------------------------------------------------------------ bounds
MaxDifficulty == 2
MaxNonce == 8

\* ------------------------------------------------------------- JS values
Null == [k |-> "null"]
Undef == [k |-> "undef"]
Num(n) == [k |-> "num", n |-> n]
Str(s) == [k |-> "str", s |-> s]
Arr(a) == [k |-> "arr", a |-> a]
Obj(o) == [k |-> "obj", o |-> o]

\* x.hasOwnProperty(f), for the property names the engine asks about:
\* a TypeError on null and undefined, false on a boxed primitive.
hasOwnProperty(x, f) ==
  IF x.k \in {"null", "undef"} THEN "throw"
  ELSE IF x.k = "obj" /\ f \in DOMAIN x.o THEN "true"
  ELSE "false"

\* x.f for a value x that is neither null nor undefined: undefined when x
\* has no such property.
Get(x, f) ==
  IF x.k = "obj" /\ f \in DOMAIN x.o THEN x.o[f] ELSE Undef

\* x.length for a value x that is neither null nor undefined; -1 stands for
\* undefined, for which every comparison with 0 is false.
LengthOf(x) ==
  IF x.k = "arr" THEN Len(x.a)
  ELSE IF x.k = "str" THEN Len(x.s)
  ELSE -1

\* a && b on outcomes, b evaluated only when a is true.
AndThen(a, b) ==
  IF a = "true" THEN b ELSE a

\* fs.every(f => x.hasOwnProperty(f)) written as a chain of &&.
hasAll(x, fs) ==
  IF x.k \in {"null", "undef"} THEN "throw"
  ELSE IF \A f \in fs : hasOwnProperty(x, f) = "true" THEN "true"
  ELSE "false"

\* ---------------------------------------------------------- the validator
MaxHashtagLen == 32

Digits == {"0", "1", "2", "3", "4", "5", "6", "7", "8", "9"}
Lower ==
  {"a", "b", "c", "d", "e", "f", "g", "h", "i", "j", "k", "l", "m",
   "n", "o", "p", "q", "r", "s", "t", "u", "v", "w", "x", "y", "z"}
Upper ==
  {"A", "B", "C", "D", "E", "F", "G", "H", "I", "J", "K", "L", "M",
   "N", "O", "P", "Q", "R", "S", "T", "U", "V", "W", "X", "Y", "Z"}

\* /^[a-zA-Z0-9]*$/ on a string's characters.
matchAlnum(s) ==
  \A i \in 1..Len(s) : s[i] \in Digits \cup Lower \cup Upper

PostFields == {"parent", "content", "hashtags", "attachments"}
MetaFields ==
  {"followed", "hashtags", "bookmarks", "name", "about", "image", "website"}
MessageFields == {"receiver", "message"}
AttachmentTypes == {Str(<<"i", "m", "a", "g", "e">>),
                    Str(<<"v", "i", "d", "e", "o">>),
                    Str(<<"o", "t", "h", "e", "r", "s">>)}

\* The callback of hashtags.every in part_003.
hashtagOk(e) ==
  /\ e.k = "str"
  /\ Len(e.s) <= MaxHashtagLen
  /\ matchAlnum(e.s)

\* The callback of attachments.every in part_003: a TypeError on a null or
\* undefined element, else whether it has a type of the enumeration and one
\* of cid and url.
attachmentOk(e) ==
  IF e.k \in {"null", "undef"} THEN "throw"
  ELSE IF /\ hasOwnProperty(e, "type") = "true"
          /\ Get(e, "type") \in AttachmentTypes
          /\ \/ hasOwnProperty(e, "cid") = "true"
             \/ hasOwnProperty(e, "url") = "true"
       THEN "true"
  ELSE "false"

\* xs.every(cb) where cb's outcomes on the elements are out[1..n]: every
\* stops at the first element whose outcome is not true.
RECURSIVE everyFrom(_, _)
everyFrom(out, i) ==
  IF i > Len(out) THEN "true"
  ELSE IF out[i] = "true" THEN everyFrom(out, i + 1)
  ELSE out[i]

\* data.hashtags.every(...): a TypeError unless hashtags is an array (null
\* and undefined have no properties; a number or a string has no every).
hashtagsEvery(data) ==
  LET hs == Get(data, "hashtags") IN
  IF hs.k # "arr" THEN "throw"
  ELSE everyFrom([i \in 1..Len(hs.a) |->
                    IF hashtagOk(hs.a[i]) THEN "true" ELSE "false"], 1)

attachmentsEvery(data) ==
  LET at == Get(data, "attachments") IN
  IF at.k # "arr" THEN "throw"
  ELSE everyFrom([i \in 1..Len(at.a) |-> attachmentOk(at.a[i])], 1)

\* part_003: the type is compared with ===.
checkDataStructure(data, type) ==
  IF type = Str(<<"p", "o", "s", "t">>) THEN
    AndThen(hasAll(data, PostFields),
            AndThen(hashtagsEvery(data), attachmentsEvery(data)))
  ELSE IF type = Str(<<"m", "e", "t", "a">>) THEN
    AndThen(hasAll(data, MetaFields), hashtagsEvery(data))
  ELSE IF type = Str(<<"m", "e", "s", "s", "a", "g", "e">>) THEN
    hasAll(data, MessageFields)
  ELSE "false"

\* index.js: xs.length > 0 followed by xs.forEach(...). A TypeError when xs
\* is null or undefined, or when it has a positive length and no forEach (a
\* string); "skip" when the length test is false; else "loop".
lengthThenForEach(xs) ==
  IF xs.k \in {"null", "undef"} THEN "throw"
  ELSE IF LengthOf(xs) > 0 THEN (IF xs.k = "arr" THEN "loop" ELSE "throw")
  ELSE "skip"

\* index.js: the parity that allgoodx = !allgoodx leaves after the loop:
\* TRUE iff the number of own cid and url properties over all elements is odd.
RECURSIVE allgoodxAfter(_, _, _)
allgoodxAfter(a, i, x) ==
  IF i > Len(a) THEN x
  ELSE LET x1 == IF hasOwnProperty(a[i], "cid") = "true" THEN ~x ELSE x
           x2 == IF hasOwnProperty(a[i], "url") = "true" THEN ~x1 ELSE x1
       IN allgoodxAfter(a, i + 1, x2)

\* index.js: the attachments block. The callback throws on a null or
\* undefined element; allgood is set by any element that has a type.
attachmentsBlock(data) ==
  LET at == Get(data, "attachments")
      how == lengthThenForEach(at)
  IN IF how = "throw" THEN "throw"
     ELSE IF how = "skip" THEN "true"
     ELSE IF \E i \in 1..Len(at.a) : at.a[i].k \in {"null", "undef"}
       THEN "throw"
     ELSE LET allgood ==
                \E i \in 1..Len(at.a) : hasOwnProperty(at.a[i], "type") = "true"
              allgoodx == allgoodxAfter(at.a, 1, FALSE)
          IN IF allgood = FALSE \/ allgoodx = FALSE THEN "false" ELSE "true"

\* index.js: the hashtags block of the post branch. The callback's return
\* false leaves only the callback, so the block decides nothing; it can only
\* throw, when hashtags is null, undefined or a non-empty string.
hashtagsBlock(data) ==
  IF lengthThenForEach(Get(data, "hashtags")) = "throw" THEN "throw"
  ELSE "true"

\* index.js: the meta branch reads data.hashTags (capital T) and calls forEach
\* on it with no length test.
hashTagsBlock(data) ==
  IF Get(data, "hashTags").k = "arr" THEN "true" ELSE "throw"

\* A string is truthy iff it is not empty.
Truthy(s) == Len(s) > 0

\* index.js: each test is the assignment (type = "..."), whose value is the
\* assigned string; the argument type is overwritten and never read.
checkdatastructure(data, type) ==
  IF Truthy(<<"p", "o", "s", "t">>) THEN
    LET has == hasAll(data, PostFields) IN
    IF has # "true" THEN has
    ELSE AndThen(hashtagsBlock(data), attachmentsBlock(data))
  ELSE IF Truthy(<<"m", "e", "t", "a">>) THEN
    LET has == hasAll(data, MetaFields) IN
    IF has # "true" THEN has
    ELSE hashTagsBlock(data)
  ELSE IF Truthy(<<"m", "e", "s", "s", "a", "g", "e">>) THEN
    hasAll(data, MessageFields)
  ELSE "false"

Impls == {"index", "part003"}

validate(i, data, type) ==
  IF i = "index" THEN checkdatastructure(data, type)
  ELSE checkDataStructure(data, type)

\* ------------------------------------------------------------ to string
DigitSeq == <<"0", "1", "2", "3", "4", "5", "6", "7", "8", "9">>

\* The decimal digits of a number n >= 0, as `${n}` writes them.
RECURSIVE decimal(_)
decimal(n) ==
  IF n < 10 THEN <<DigitSeq[n + 1]>>
  ELSE decimal(n \div 10) \o <<DigitSeq[(n % 10) + 1]>>

\* `${x}` of a template literal. A plain object gives "[object Object]"
\* whatever its properties are; an array joins its elements with commas
\* (only the empty array and arrays of strings occur here).
RECURSIVE join(_, _)
join(a, i) ==
  IF i > Len(a) THEN <<>>
  ELSE (IF a[i].k = "str" THEN a[i].s ELSE <<>>)
       \o (IF i < Len(a) THEN <<",">> ELSE <<>>)
       \o join(a, i + 1)

ToString(x) ==
  IF x.k = "str" THEN x.s
  ELSE IF x.k = "num" THEN decimal(x.n)
  ELSE IF x.k = "null" THEN <<"n", "u", "l", "l">>
  ELSE IF x.k = "undef" THEN <<"u", "n", "d", "e", "f", "i", "n", "e", "d">>
  ELSE IF x.k = "arr" THEN join(x.a, 1)
  ELSE <<"[", "o", "b", "j", "e", "c", "t", " ",
         "O", "b", "j", "e", "c", "t", "]">>

\* ------------------------------------------------- the crypto primitives
\* The digest functions (keccak256 of eth-crypto, SHA256 of crypto-js) are
\* external. A digest is modelled by the text the engine reads: the prefix
\* the library writes, then LeadLen leading hex digits computed from the
\* message, then ":" and the message itself, which stands for the remaining
\* digits and makes the function collision free, as the engine assumes of
\* the real one.
Alphabet ==
  <<"0", "1", "2", "3", "4", "5", "6", "7", "8", "9",
    "a", "b", "c", "d", "e", "f", "g", "h", "i", "j", "k", "l", "m",
    "n", "o", "p", "q", "r", "s", "t", "u", "v", "w", "x", "y", "z",
    "A", "B", "C", "D", "E", "F", "G", "H", "I", "J", "K", "L", "M",
    "N", "O", "P", "Q", "R", "S", "T", "U", "V", "W", "X", "Y", "Z",
    "[", "]", " ", ",", ":", "-", "#", ".">>

CodeOf ==
  [c \in {Alphabet[n] : n \in 1..Len(Alphabet)} |->
     CHOOSE n \in 1..Len(Alphabet) : Alphabet[n] = c]

Code(c) == CodeOf[c]

LeadLen == MaxDifficulty + 1
LeadDigits == <<"0", "5", "a", "f">>

RECURSIVE mix(_, _, _, _)
mix(m, n, acc, mult) ==
  IF n > Len(m) THEN acc
  ELSE mix(m, n + 1, (acc * mult + Code(m[n])) % 251, mult)

leadOf(m, mult) ==
  LET h == mix(m, 1, 7, mult) IN
  [n \in 1..LeadLen |-> LeadDigits[((h \div (4 ^ (n - 1))) % 4) + 1]]

\* index.js: EthCrypto.hash.keccak256(message), "0x" and hex digits.
hashMessage_index(message) ==
  <<"0", "x">> \o leadOf(message, 31) \o <<":">> \o message

\* part_003: CryptoJS.SHA256(message).toString(CryptoJS.enc.Hex).
hashMessage_part003(message) ==
  leadOf(message, 17) \o <<":">> \o message

hashMessage(i, message) ==
  IF i = "index" THEN hashMessage_index(message)
  ELSE hashMessage_part003(message)

\* "0".repeat(n)
zeros(n) == [j \in 1..n |-> "0"]

startsWith(s, p) ==
  /\ Len(p) <= Len(s)
  /\ \A j \in 1..Len(p) : s[j] = p[j]

difficultyverify_index(difficulty, hash) ==
  startsWith(hash, <<"0", "x">> \o zeros(difficulty))

difficultyverify_part003(difficulty, hash) ==
  startsWith(hash, zeros(difficulty))

difficultyverify(i, difficulty, hash) ==
  IF i = "index" THEN difficultyverify_index(difficulty, hash)
  ELSE difficultyverify_part003(difficulty, hash)

\* What a call that throws yields in place of a value.
Throw == [k |-> "throw"]

PrivateKeys == {"sk1", "sk2"}
MalformedKey == "skBad"
PubKey(name) == Str(<<"p", "k", name>>)
PublicKeys == {PubKey("1"), PubKey("2")}
\* The key that recovery yields from a signature over another digest: a
\* well-formed public key that is nobody's.
StrangerKey == PubKey("X")

\* EthCrypto.publicKeyByPrivateKey / ec.keyFromPrivate(..).getPublic("hex"):
\* the library rejects a malformed private key.
privateKeyToPublicKey(privateKey) ==
  IF privateKey = "sk1" THEN PubKey("1")
  ELSE IF privateKey = "sk2" THEN PubKey("2")
  ELSE Throw

\* The message is hashed again before it is signed.
signMessage(i, privateKey, message) ==
  IF privateKey \notin PrivateKeys THEN Throw
  ELSE [k |-> "sig", signer |-> privateKeyToPublicKey(privateKey),
        over |-> hashMessage(i, message)]

\* Recovery hashes the message again, throws on a value that is no
\* well-formed signature, and yields the signer's key exactly when the
\* signature was made over that digest.
recoverPublicKey(i, signature, message) ==
  IF signature.k # "sig" THEN Throw
  ELSE IF signature.over = hashMessage(i, message) THEN signature.signer
  ELSE StrangerKey

\* -------------------------------------------------------- verification
CommitFields == {"commitAt", "data", "publicKey", "signature", "type", "nonce"}

\* Object.keys(x).length: a TypeError on null and undefined.
keyCount(x) ==
  IF x.k = "obj" THEN Cardinality(DOMAIN x.o)
  ELSE IF x.k = "arr" THEN Len(x.a)
  ELSE IF x.k = "str" THEN Len(x.s)
  ELSE 0

NumberOfCommitFields == 6

verifyObject_index(dataObject) ==
  IF dataObject.k \in {"null", "undef"} THEN "throw"
  ELSE IF keyCount(dataObject) # NumberOfCommitFields THEN "false"
  ELSE LET c == checkdatastructure(Get(dataObject, "data"),
                                   Get(dataObject, "type"))
       IN IF c # "true" THEN c
          ELSE hasAll(dataObject, CommitFields)

verifyObject_part003(dataObject) ==
  AndThen(hasAll(dataObject, CommitFields),
          checkDataStructure(Get(dataObject, "data"),
                             Get(dataObject, "type")))

verifyObject(i, dataObject) ==
  IF i = "index" THEN verifyObject_index(dataObject)
  ELSE verifyObject_part003(dataObject)

\* `${commit.data}${commit.commitAt}${commit.nonce}`
hashStringOf(data, at, n) ==
  ToString(data) \o ToString(at) \o ToString(n)

\* The body of the try block of verifyCommit; a throw inside it is caught
\* and gives false.
verifyTry(i, commit, difficulty) ==
  LET hashString == hashStringOf(Get(commit, "data"), Get(commit, "commitAt"),
                                 Get(commit, "nonce"))
      hashedData == hashMessage(i, hashString)
  IN IF ~difficultyverify(i, difficulty, hashedData) THEN "false"
     ELSE LET signer == recoverPublicKey(i, Get(commit, "signature"),
                                         hashedData)
          IN IF signer = Throw THEN "false"
             ELSE IF signer = Get(commit, "publicKey") THEN "true"
             ELSE "false"

\* verifyObject is called before the try block: what it throws leaves
\* verifyCommit.
verifyCommit(i, commit, difficulty) ==
  LET v == verifyObject(i, commit) IN
  IF v # "true" THEN v
  ELSE verifyTry(i, commit, difficulty)

\* ------------------------------------------------------- inputs of calls
TypePost == Str(<<"p", "o", "s", "t">>)
TypeMeta == Str(<<"m", "e", "t", "a">>)
TypeMessage == Str(<<"m", "e", "s", "s", "a", "g", "e">>)
TypeOther == Str(<<"b", "l", "o", "g">>)
Types == {TypePost, TypeMeta, TypeMessage, TypeOther}

Text == Str(<<"h", "i">>)
TagNews == Str(<<"n", "e", "w", "s">>)
TagHash == Str(<<"b", "a", "d", "#">>)
TagLong == Str([n \in 1..(MaxHashtagLen + 1) |-> "a"])
Image == Str(<<"i", "m", "a", "g", "e">>)
Img == Str(<<"i", "m", "g">>)

\* Attachment elements: cid only, url only, both, neither, no type, a type
\* outside the enumeration (the "img" of the README), and null.
AttCid == Obj([type |-> Image, cid |-> Text])
AttUrl == Obj([type |-> Image, url |-> Text])
AttBoth == Obj([type |-> Image, cid |-> Text, url |-> Text])
AttBare == Obj([type |-> Image])
AttNoType == Obj([cid |-> Text])
AttImg == Obj([type |-> Img, cid |-> Text])

\* postTemplate(content, hashtags, attachments, parentID = null)
postTemplate(content, hashtags, attachments) ==
  Obj([parent |-> Null, content |-> content, hashtags |-> hashtags,
       attachments |-> attachments])

\* metaTemplate(name, about, image, website, followed, hashtags, bookmarks)
metaTemplate(hashtags) ==
  Obj([followed |-> Arr(<<>>), hashtags |-> hashtags, bookmarks |-> Arr(<<>>),
       name |-> Text, about |-> Text, image |-> Text, website |-> Text])

\* What encodeMessage returns: { receiver, message }.
messageEnvelope(blob) == Obj([receiver |-> PubKey("2"), message |-> blob])

\* The payloads that commits are created from and tampered with.
CommitData ==
  { postTemplate(Text, Arr(<<TagNews>>), Arr(<<>>)),
    postTemplate(Text, Arr(<<>>), Arr(<<AttCid, AttUrl>>)),
    postTemplate(Text, Arr(<<TagHash>>), Arr(<<AttCid>>)),
    postTemplate(Text, Null, Arr(<<>>)),
    metaTemplate(Arr(<<TagNews>>)),
    messageEnvelope(Text),
    Null,
    Text }

Timestamps == {Str(<<"T", "1">>), Str(<<"T", "2">>)}
Difficulties == 0..MaxDifficulty

\* ------------------------------------------------------------ the state
VARIABLES
  impl,         \* the implementation this behaviour runs
  pc,           \* createCommit: "idle", "mining" (in the loop), "sign"
  args,         \* the arguments of the last createCommit call
  commitAt,     \* createCommit's const commitAt
  nonce,        \* createCommit's let nonce
  messageHash,  \* createCommit's let messageHash
  created,      \* how the last createCommit ended: "none", "ok", "error"
  commit,       \* the commit object at hand
  base,         \* the commit as createCommit returned it
  change,       \* what was done to it since: "none", a field name, ...
  result,       \* the outcome of the last verifyCommit, "none" before it
  vd,           \* the difficulty of the last verifyCommit
  calls         \* the calls in progress side by side, one record per caller

vars ==
  <<impl, pc, args, commitAt, nonce, messageHash, created, commit, base,
    change, result, vd, calls>>

\* The callers that may have a call in progress at the same time.
NCalls == 2
CallIds == 1..NCalls

\* A caller with no call in progress. op is "none", "create" or "verify"; pc
\* is the call's position; the other fields are the call's parameters and
\* locals, ret what createCommit returned and res how the call ended.
IdleCall ==
  [op |-> "none", pc |-> "idle", privateKey |-> "none", data |-> Undef,
   type |-> Undef, difficulty |-> 0, commit |-> Undef, commitAt |-> Undef,
   nonce |-> 0, messageHash |-> <<>>, ret |-> Undef, res |-> "none"]

NoArgs == [privateKey |-> "none", data |-> Undef, type |-> Undef,
           difficulty |-> 0]

InitialNonce == 0

Init ==
  /\ impl \in Impls
  /\ pc = "idle"
  /\ args = NoArgs
  /\ commitAt = Undef
  /\ nonce = InitialNonce
  /\ messageHash = <<>>
  /\ created = "none"
  /\ commit = Undef
  /\ base = Undef
  /\ change = "none"
  /\ result = "none"
  /\ vd = 0
  /\ calls = [p \in CallIds |-> IdleCall]

\* createCommit is entered: commitAt = new Date().toISOString(), nonce = 0.
StartCreate(privateKey, data, type, difficulty, now) ==
  /\ pc = "idle"
  /\ created = "none"
  /\ pc' = "mining"
  /\ args' = [privateKey |-> privateKey, data |-> data, type |-> type,
              difficulty |-> difficulty]
  /\ commitAt' = now
  /\ nonce' = InitialNonce
  /\ messageHash' = <<>>
  /\ created' = "none"
  /\ commit' = Undef
  /\ base' = Undef
  /\ change' = "none"
  /\ result' = "none"
  /\ vd' = 0
  /\ UNCHANGED impl
  /\ UNCHANGED calls

\* MineStep with the loop test written with && in place of ||: as
\* messageHash is never undefined the test is false and the loop is left
\* after its first iteration.
MineStepAndForOr ==
  /\ pc = "mining"
  /\ nonce < MaxNonce
  /\ nonce' = nonce + 1
  /\ messageHash' =
       hashMessage(impl, hashStringOf(args.data, commitAt, Num(nonce')))
  /\ pc' = "sign"
  /\ UNCHANGED <<impl, args, commitAt, created, commit, base, change, result,
                 vd>>
  /\ UNCHANGED calls

\* MineStep with the timestamp taken inside the loop: each iteration hashes
\* with the time it reads.
MineStepRecaptures ==
  /\ pc = "mining"
  /\ nonce < MaxNonce
  /\ nonce' = nonce + 1
  /\ \E now \in Timestamps : commitAt' = now
  /\ messageHash' =
       hashMessage(impl, hashStringOf(args.data, commitAt', Num(nonce')))
  /\ pc' = IF ~difficultyverify(impl, args.difficulty, messageHash')
           THEN "mining" ELSE "sign"
  /\ UNCHANGED <<impl, args, created, commit, base, change, result, vd>>
  /\ UNCHANGED calls

\* One iteration of the do...while loop: nonce++, the hash string, its
\* digest, and the loop test (messageHash is never undefined).
MineStep ==
  /\ pc = "mining"
  /\ nonce < MaxNonce
  /\ nonce' = nonce + 1
  /\ messageHash' =
       hashMessage(impl, hashStringOf(args.data, commitAt, Num(nonce')))
  /\ pc' = IF ~difficultyverify(impl, args.difficulty, messageHash')
           THEN "mining" ELSE "sign"
  /\ UNCHANGED <<impl, args, commitAt, created, commit, base, change, result,
                 vd>>
  /\ UNCHANGED calls

\* SignAndReturn with the commit object assembled before signing and handed
\* out by the catch block along with the error.
SignAndReturnPartial ==
  /\ pc = "sign"
  /\ pc' = "idle"
  /\ LET signature == signMessage(impl, args.privateKey, messageHash)
         publicKey == privateKeyToPublicKey(args.privateKey)
     IN IF signature = Throw \/ publicKey = Throw
        THEN /\ created' = "error"
             /\ commit' = Obj([commitAt |-> commitAt, data |-> args.data,
                               type |-> args.type, nonce |-> Num(nonce)])
             /\ base' = commit'
        ELSE /\ created' = "ok"
             /\ commit' = Obj([commitAt |-> commitAt, data |-> args.data,
                               publicKey |-> publicKey,
                               signature |-> signature, type |-> args.type,
                               nonce |-> Num(nonce)])
             /\ base' = commit'
  /\ UNCHANGED <<impl, args, commitAt, nonce, messageHash, change, result, vd>>
  /\ UNCHANGED calls

\* After the loop: sign, derive the public key, return the commit; what the
\* library throws is caught and replaced by Error("Failed to create commit.").
SignAndReturn ==
  /\ pc = "sign"
  /\ pc' = "idle"
  /\ LET signature == signMessage(impl, args.privateKey, messageHash)
         publicKey == privateKeyToPublicKey(args.privateKey)
     IN IF signature = Throw \/ publicKey = Throw
        THEN /\ created' = "error"
             /\ UNCHANGED <<commit, base>>
        ELSE /\ created' = "ok"
             /\ commit' = Obj([commitAt |-> commitAt, data |-> args.data,
                               publicKey |-> publicKey,
                               signature |-> signature, type |-> args.type,
                               nonce |-> Num(nonce)])
             /\ base' = commit'
  /\ UNCHANGED <<impl, args, commitAt, nonce, messageHash, change, result, vd>>
  /\ UNCHANGED calls

\* The values a holder of the commit may put in place of a field.
Replacements(c, f) ==
  IF f = "data" THEN CommitData
  ELSE IF f = "commitAt" THEN Timestamps \cup {Null}
  ELSE IF f = "nonce" THEN
    {Num(n) : n \in 0..2} \cup {Str(ToString(c.o.nonce))}
  ELSE IF f = "signature" THEN
    {[k |-> "sig", signer |-> p, over |-> h] :
       p \in PublicKeys, h \in {c.o.signature.over, <<"0", "0">>}}
    \cup {Text, Null}
  ELSE IF f = "publicKey" THEN PublicKeys \cup {StrangerKey, Null}
  ELSE Types

\* One field of the commit at hand is replaced by a different value.
Tamper(f) ==
  /\ pc = "idle"
  /\ created = "ok"
  /\ change = "none"
  /\ \E v \in Replacements(commit, f) :
       /\ v # commit.o[f]
       /\ commit' = [commit EXCEPT !.o[f] = v]
  /\ change' = f
  /\ result' = "none"
  /\ vd' = 0
  /\ UNCHANGED <<impl, pc, args, commitAt, nonce, messageHash, created, base>>
  /\ UNCHANGED calls

\* One field of the commit at hand is deleted.
RemoveField(f) ==
  /\ pc = "idle"
  /\ created = "ok"
  /\ change = "none"
  /\ commit' = Obj([g \in DOMAIN commit.o \ {f} |-> commit.o[g]])
  /\ change' = "removed"
  /\ result' = "none"
  /\ vd' = 0
  /\ UNCHANGED <<impl, pc, args, commitAt, nonce, messageHash, created, base>>
  /\ UNCHANGED calls

\* A seventh property is added to the commit at hand, as created or after
\* one of its fields was deleted.
AddField ==
  /\ pc = "idle"
  /\ created = "ok"
  /\ change \in {"none", "removed"}
  /\ commit' = Obj([g \in DOMAIN commit.o \cup {"extra"} |->
                      IF g = "extra" THEN Text ELSE commit.o[g]])
  /\ change' = IF change = "none" THEN "added" ELSE "swapped"
  /\ result' = "none"
  /\ vd' = 0
  /\ UNCHANGED <<impl, pc, args, commitAt, nonce, messageHash, created, base>>
  /\ UNCHANGED calls

\* Verify with a validator that assigns "post" to the commit's own type
\* property in place of its parameter.
VerifyWritesType(difficulty) ==
  /\ pc = "idle"
  /\ result = "none"
  /\ result' = verifyCommit(impl, commit, difficulty)
  /\ vd' = difficulty
  /\ commit' = IF commit.k = "obj" /\ "type" \in DOMAIN commit.o
               THEN [commit EXCEPT !.o.type = TypePost]
               ELSE commit
  /\ UNCHANGED <<impl, pc, args, commitAt, nonce, messageHash, created,
                 base, change>>
  /\ UNCHANGED calls

\* verifyCommit(commit, difficulty) on the value at hand (undefined before
\* any commit was created).
Verify(difficulty) ==
  /\ pc = "idle"
  /\ result = "none"
  /\ result' = verifyCommit(impl, commit, difficulty)
  /\ vd' = difficulty
  /\ UNCHANGED <<impl, pc, args, commitAt, nonce, messageHash, created,
                 commit, base, change>>
  /\ UNCHANGED calls

\* The caller drops what the last createCommit call left (the commit, or the
\* error) and is free to call createCommit again.
Discard ==
  /\ pc = "idle"
  /\ created # "none"
  /\ args' = NoArgs
  /\ commitAt' = Undef
  /\ nonce' = InitialNonce
  /\ messageHash' = <<>>
  /\ created' = "none"
  /\ commit' = Undef
  /\ base' = Undef
  /\ change' = "none"
  /\ result' = "none"
  /\ vd' = 0
  /\ UNCHANGED <<impl, pc>>
  /\ UNCHANGED calls

Next ==
  \/ \E privateKey \in PrivateKeys \cup {MalformedKey}, data \in CommitData,
        type \in Types, difficulty \in Difficulties, now \in Timestamps :
       StartCreate(privateKey, data, type, difficulty, now)
  \/ MineStep
  \/ SignAndReturn
  \/ \E f \in CommitFields : Tamper(f)
  \/ \E f \in CommitFields : RemoveField(f)
  \/ AddField
  \/ \E difficulty \in Difficulties : Verify(difficulty)
  \/ Discard

Spec == Init /\ [][Next]_vars

\* ------------------------------------------------ createCommit called alone
\* Calls of createCommit one after the other. The call is synchronous: once
\* entered, the thread runs the loop and then the signing without waiting
\* for anything, hence the weak fairness of its two steps.
NextMine ==
  \/ \E privateKey \in PrivateKeys \cup {MalformedKey}, data \in CommitData,
        type \in Types, difficulty \in Difficulties, now \in Timestamps :
       StartCreate(privateKey, data, type, difficulty, now)
  \/ MineStep
  \/ SignAndReturn
  \/ Discard

SpecMine ==
  /\ Init
  /\ [][NextMine]_vars
  /\ WF_vars(MineStep)
  /\ WF_vars(SignAndReturn)

\* ------------------------------------------------- calls side by side
\* Several callers, each with one createCommit or verifyCommit call in
\* progress; a step is one loop pass, the signing, or one half of
\* verifyCommit of one call. A call's parameters and locals are its own
\* record: neither implementation declares a variable outside its functions
\* other than constants (part_003's ec is never assigned after line 4).
engine == <<pc, args, commitAt, nonce, messageHash, created, commit, base,
            change, result, vd>>

\* createCommit run from entry to return with nothing else running: the
\* first nonce from n on that the loop accepts, 0 when none up to MaxNonce.
RECURSIVE mineAlone(_, _, _, _, _)
mineAlone(i, data, at, difficulty, n) ==
  IF n > MaxNonce THEN 0
  ELSE IF difficultyverify(i, difficulty,
                           hashMessage(i, hashStringOf(data, at, Num(n))))
    THEN n
  ELSE mineAlone(i, data, at, difficulty, n + 1)

\* What createCommit returns (res "ok", the commit) or throws (res "error");
\* res "none" while the loop has not ended within MaxNonce passes.
createCommit(i, privateKey, data, type, difficulty, now) ==
  LET n == mineAlone(i, data, now, difficulty, 1)
      h == hashMessage(i, hashStringOf(data, now, Num(n)))
      signature == signMessage(i, privateKey, h)
      publicKey == privateKeyToPublicKey(privateKey)
  IN IF n = 0 THEN [res |-> "none", ret |-> Undef]
     ELSE IF signature = Throw \/ publicKey = Throw
       THEN [res |-> "error", ret |-> Undef]
     ELSE [res |-> "ok",
           ret |-> Obj([commitAt |-> now, data |-> data,
                        publicKey |-> publicKey, signature |-> signature,
                        type |-> type, nonce |-> Num(n)])]

\* The arguments of the calls made side by side.
ParKeys == {"sk1", MalformedKey}
ParPayload == postTemplate(Text, Arr(<<TagNews>>), Arr(<<>>))
\* One difficulty, at which the loops of the calls have different lengths.
ParDifficulties == {1}
ParCommit ==
  createCommit(impl, "sk1", ParPayload, TypePost, 1,
               Str(<<"T", "1">>)).ret
ParCommits ==
  {ParCommit, Null} \cup
  (IF ParCommit.k = "obj"
   THEN {[ParCommit EXCEPT !.o.commitAt = Str(<<"T", "2">>)]} ELSE {})

EnterCreate(p, privateKey, difficulty, now) ==
  /\ calls[p].op = "none"
  /\ calls' = [calls EXCEPT ![p] =
                 [IdleCall EXCEPT !.op = "create", !.pc = "mining",
                                  !.privateKey = privateKey,
                                  !.data = ParPayload, !.type = TypePost,
                                  !.difficulty = difficulty,
                                  !.commitAt = now, !.nonce = InitialNonce]]
  /\ UNCHANGED <<impl, engine>>

\* LoopPass with nonce declared outside createCommit: the pass of one call
\* moves the counter every call in the loop reads.
LoopPassSharedNonce(p) ==
  /\ calls[p].pc = "mining"
  /\ calls[p].nonce < MaxNonce
  /\ LET c == calls[p]
         n == c.nonce + 1
         h == hashMessage(impl, hashStringOf(c.data, c.commitAt, Num(n)))
     IN calls' =
          [q \in CallIds |->
             IF q = p
             THEN [c EXCEPT !.nonce = n, !.messageHash = h,
                            !.pc = IF ~difficultyverify(impl, c.difficulty, h)
                                   THEN "mining" ELSE "sign"]
             ELSE IF calls[q].pc = "mining"
               THEN [calls[q] EXCEPT !.nonce = n]
             ELSE calls[q]]
  /\ UNCHANGED <<impl, engine>>

\* One pass of a call's do...while loop.
LoopPass(p) ==
  /\ calls[p].pc = "mining"
  /\ calls[p].nonce < MaxNonce
  /\ LET c == calls[p]
         n == c.nonce + 1
         h == hashMessage(impl, hashStringOf(c.data, c.commitAt, Num(n)))
     IN calls' = [calls EXCEPT ![p] =
                    [c EXCEPT !.nonce = n, !.messageHash = h,
                              !.pc = IF ~difficultyverify(impl, c.difficulty, h)
                                     THEN "mining" ELSE "sign"]]
  /\ UNCHANGED <<impl, engine>>

\* A call's signing, key derivation and return, or its catch block.
SignPass(p) ==
  /\ calls[p].pc = "sign"
  /\ LET c == calls[p]
         signature == signMessage(impl, c.privateKey, c.messageHash)
         publicKey == privateKeyToPublicKey(c.privateKey)
     IN calls' = [calls EXCEPT ![p] =
          IF signature = Throw \/ publicKey = Throw
          THEN [c EXCEPT !.pc = "done", !.res = "error"]
          ELSE [c EXCEPT !.pc = "done", !.res = "ok",
                         !.ret = Obj([commitAt |-> c.commitAt,
                                      data |-> c.data,
                                      publicKey |-> publicKey,
                                      signature |-> signature,
                                      type |-> c.type,
                                      nonce |-> Num(c.nonce)])]]
  /\ UNCHANGED <<impl, engine>>

EnterVerify(p, c, difficulty) ==
  /\ calls[p].op = "none"
  /\ calls' = [calls EXCEPT ![p] =
                 [IdleCall EXCEPT !.op = "verify", !.pc = "check",
                                  !.commit = c, !.difficulty = difficulty]]
  /\ UNCHANGED <<impl, engine>>

\* verifyCommit up to its try block: the verifyObject test.
CheckPass(p) ==
  /\ calls[p].pc = "check"
  /\ LET o == verifyObject(impl, calls[p].commit)
     IN calls' = [calls EXCEPT ![p] =
          IF o = "true" THEN [calls[p] EXCEPT !.pc = "try"]
          ELSE [calls[p] EXCEPT !.pc = "done", !.res = o]]
  /\ UNCHANGED <<impl, engine>>

\* verifyCommit's try block.
TryPass(p) ==
  /\ calls[p].pc = "try"
  /\ calls' = [calls EXCEPT ![p] =
       [calls[p] EXCEPT !.pc = "done",
                        !.res = verifyTry(impl, calls[p].commit,
                                          calls[p].difficulty)]]
  /\ UNCHANGED <<impl, engine>>

\* The caller takes what its call returned and is free to call again.
Leave(p) ==
  /\ calls[p].pc = "done"
  /\ calls' = [calls EXCEPT ![p] = IdleCall]
  /\ UNCHANGED <<impl, engine>>

NextPar ==
  \/ \E p \in CallIds, privateKey \in ParKeys,
        difficulty \in ParDifficulties, now \in Timestamps :
       EnterCreate(p, privateKey, difficulty, now)
  \/ \E p \in CallIds : LoopPass(p)
  \/ \E p \in CallIds : SignPass(p)
  \/ \E p \in CallIds, c \in ParCommits, difficulty \in ParDifficulties :
       EnterVerify(p, c, difficulty)
  \/ \E p \in CallIds : CheckPass(p)
  \/ \E p \in CallIds : TryPass(p)
  \/ \E p \in CallIds : Leave(p)

SpecPar == Init /\ [][NextPar]_vars

\* ------------------------------------------- the validator called alone
MaxHashtags == 2
MaxAttachments == 2

SeqsUpTo(S, n) == UNION {[1..m -> S] : m \in 0..n}

\* x with its property f deleted.
Without(x, f) == Obj([g \in DOMAIN x.o \ {f} |-> x.o[g]])

HashtagElements == {TagNews, TagHash, TagLong, Num(5)}
HashtagValues ==
  {Arr(a) : a \in SeqsUpTo(HashtagElements, MaxHashtags)}
  \cup {Null, Num(5), Text}

AttachmentElements ==
  {AttCid, AttUrl, AttBoth, AttBare, AttNoType, AttImg, Null}
AttachmentValues ==
  {Arr(a) : a \in SeqsUpTo(AttachmentElements, MaxAttachments)}
  \cup {Null, Num(5)}

PostPayloads ==
  {postTemplate(Text, hs, Arr(<<>>)) : hs \in HashtagValues}
  \cup {postTemplate(Text, Arr(<<TagNews>>), at) : at \in AttachmentValues}
  \cup {postTemplate(Text, Arr(<<TagHash>>), Arr(<<AttCid>>)),
        postTemplate(Text, Arr(<<TagNews, TagHash>>), Arr(<<AttImg>>))}
  \cup {Without(postTemplate(Text, Arr(<<TagNews>>), Arr(<<AttCid>>)), f) :
          f \in PostFields}

MetaPayloads ==
  {metaTemplate(hs) : hs \in HashtagValues}
  \cup {Without(metaTemplate(Arr(<<TagNews>>)), f) : f \in MetaFields}

MessagePayloads ==
  {messageEnvelope(blob) : blob \in {Text, Null, Num(5), Obj(<<>>)}}
  \cup {Without(messageEnvelope(Text), f) : f \in MessageFields}

Payloads ==
  PostPayloads \cup MetaPayloads \cup MessagePayloads
  \cup {Null, Undef, Text, Num(5), Obj(<<>>)}

\* The arguments are drawn at the start; result holds what the validator
\* returned, "none" before the call.
InitValidate ==
  /\ impl \in Impls
  /\ pc = "idle"
  /\ args \in {[privateKey |-> "none", data |-> d, type |-> t,
                difficulty |-> 0] : d \in Payloads, t \in Types}
  /\ commitAt = Undef
  /\ nonce = InitialNonce
  /\ messageHash = <<>>
  /\ created = "none"
  /\ commit = Undef
  /\ base = Undef
  /\ change = "none"
  /\ result = "none"
  /\ vd = 0
  /\ calls = [p \in CallIds |-> IdleCall]

\* checkdatastructure(data, type) / checkDataStructure(data, type)
Validate ==
  /\ result = "none"
  /\ result' = validate(impl, args.data, args.type)
  /\ UNCHANGED <<impl, pc, args, commitAt, nonce, messageHash, created,
                 commit, base, change, vd>>
  /\ UNCHANGED calls

NextValidate == Validate

SpecValidate == InitValidate /\ [][NextValidate]_vars

\* --------------------------------------- the rules of the specification
\* Section 4.4 of the specification, stated on the values themselves.
IsArray(x) == x.k = "arr"

HasFields(x, fs) == x.k = "obj" /\ fs \subseteq DOMAIN x.o

HashtagRule(e) ==
  /\ e.k = "str"
  /\ Len(e.s) <= 32
  /\ \A n \in 1..Len(e.s) : e.s[n] \in Digits \cup Lower \cup Upper

AttachmentRule(e) ==
  /\ e.k = "obj"
  /\ "type" \in DOMAIN e.o
  /\ e.o.type \in {Str(<<"i", "m", "a", "g", "e">>),
                   Str(<<"v", "i", "d", "e", "o">>),
                   Str(<<"o", "t", "h", "e", "r", "s">>)}
  /\ {"cid", "url"} \cap DOMAIN e.o # {}

HashtagsConform(data) ==
  /\ IsArray(data.o.hashtags)
  /\ \A n \in 1..Len(data.o.hashtags.a) : HashtagRule(data.o.hashtags.a[n])

AttachmentsConform(data) ==
  /\ IsArray(data.o.attachments)
  /\ \A n \in 1..Len(data.o.attachments.a) :
       AttachmentRule(data.o.attachments.a[n])

SchemaConforms(data, type) ==
  \/ /\ type = TypePost
     /\ HasFields(data, PostFields)
     /\ HashtagsConform(data)
     /\ AttachmentsConform(data)
  \/ /\ type = TypeMeta
     /\ HasFields(data, MetaFields)
     /\ HashtagsConform(data)
  \/ /\ type = TypeMessage
     /\ HasFields(data, MessageFields)

\* The hex digits of a digest: what follows the "0x" that keccak256 writes.
HexOf(i, digest) ==
  IF i = "index" THEN SubSeq(digest, 3, Len(digest)) ELSE digest

\* Section 4.2: the digest's hex text begins with d characters "0".
SatisfiesDifficulty(i, digest, d) ==
  /\ Len(HexOf(i, digest)) >= d
  /\ \A n \in 1..d : HexOf(i, digest)[n] = "0"

\* The digest of hash(serialize(data) + commitAt + nonce) for nonce n.
DigestAt(i, data, at, n) ==
  hashMessage(i, hashStringOf(data, at, Num(n)))

\* ================================================================ claims
\* Under Spec, result is the outcome of verifyCommit on the commit at hand
\* with difficulty vd; under SpecValidate it is the outcome of the schema
\* validator on args.data and args.type.

TamperedFields == {"data", "commitAt", "nonce", "signature", "publicKey"}

\* C1. Create/verify round trip: a commit that createCommit returned for a
\* payload conforming to the schema of its declared type, verified untouched
\* with the difficulty it was created with, verifies.
C1_RoundTrip ==
  ( /\ created = "ok"
    /\ change = "none"
    /\ result # "none"
    /\ vd = args.difficulty
    /\ SchemaConforms(args.data, args.type) )
  => result = "true"

\* C2. Tamper detection: when exactly one of the fields data, commitAt,
\* nonce, signature, publicKey of a commit that verifies with difficulty vd
\* was replaced by a different value, verifyCommit does not return true (the
\* claim says it returns false; an exception in place of false is C5's
\* matter and is not counted against this claim).
C2_TamperDetected ==
  ( /\ change \in TamperedFields
    /\ result # "none"
    /\ verifyCommit(impl, base, vd) = "true" )
  => result # "true"

\* C3. verifyCommit returns true only if the data conforms to the schema of
\* the commit's type, the recomputed digest satisfies the difficulty, and the
\* key recovered from the signature over that digest is the commit's
\* publicKey.
C3_TrueOnlyIfAllThree ==
  ( /\ result = "true"
    /\ HasFields(commit, CommitFields) )
  => LET digest == hashMessage(impl, hashStringOf(commit.o.data,
                                                  commit.o.commitAt,
                                                  commit.o.nonce))
     IN /\ SchemaConforms(commit.o.data, commit.o.type)
        /\ SatisfiesDifficulty(impl, digest, vd)
        /\ recoverPublicKey(impl, commit.o.signature, digest)
             = commit.o.publicKey

\* C4. Minimal nonce: the commit createCommit returns has an integer nonce
\* n >= 1 whose digest satisfies the difficulty, no k with 1 <= k < n does,
\* and for difficulty 0 the nonce is 1.
C4_MinimalNonce ==
  created = "ok" =>
    LET n == base.o.nonce
        d == args.difficulty
    IN /\ n.k = "num"
       /\ n.n >= 1
       /\ base.o.commitAt = commitAt
       /\ base.o.data = args.data
       /\ SatisfiesDifficulty(impl, DigestAt(impl, args.data, commitAt, n.n), d)
       /\ \A m \in 1..(n.n - 1) :
            ~SatisfiesDifficulty(impl,
                                 DigestAt(impl, args.data, commitAt, m), d)
       /\ (d = 0 => n.n = 1)

\* C4's case: a commit was returned after the loop rejected at least one
\* nonce at a difficulty above 0.
C4_Witness ==
  /\ created = "ok"
  /\ change = "none"
  /\ args.difficulty > 0
  /\ base.o.nonce.n > 1

\* C5. verifyCommit never raises: stated here for the commit objects that
\* carry exactly the six fields (whatever their values), it returns true or
\* false.
C5_NeverRaises ==
  ( /\ result # "none"
    /\ commit.k = "obj"
    /\ DOMAIN commit.o = CommitFields )
  => result \in {"true", "false"}

\* C6. Hashtag rule: for type post and meta, a payload that has the fields
\* its type requires and whose hashtags hold an element that is not a
\* string, is longer than 32 characters or has a character outside
\* [A-Za-z0-9] is rejected by the validator.
C6_BadHashtagRejected ==
  ( /\ result # "none"
    /\ args.type \in {TypePost, TypeMeta}
    /\ HasFields(args.data,
                 IF args.type = TypePost THEN PostFields ELSE MetaFields)
    /\ IsArray(args.data.o.hashtags)
    /\ \E n \in 1..Len(args.data.o.hashtags.a) :
         ~HashtagRule(args.data.o.hashtags.a[n]) )
  => result = "false"

\* C7. Attachment rule: a post payload with the four required fields and
\* only valid hashtags is accepted iff every attachment has a type of
\* {image, video, others} and at least one of cid and url.
C7_AttachmentRule ==
  ( /\ result # "none"
    /\ args.type = TypePost
    /\ HasFields(args.data, PostFields)
    /\ HashtagsConform(args.data)
    /\ IsArray(args.data.o.attachments) )
  => (result = "true" <=> AttachmentsConform(args.data))

\* C8. Message variant: with type "message" the validator returns true for
\* a payload object that has receiver and message, and false for one that
\* lacks either.
C8_MessageVariant ==
  ( /\ result # "none"
    /\ args.type = TypeMessage
    /\ args.data.k = "obj" )
  => result = (IF HasFields(args.data, MessageFields) THEN "true" ELSE "false")

\* C9. Unrecognized type tag: for a type other than post, meta and message
\* the validator accepts no payload (the claim says it returns false; an
\* exception in place of false is not counted against this claim).
C9_UnknownTypeRejected ==
  ( /\ result # "none"
    /\ args.type \notin {TypePost, TypeMeta, TypeMessage} )
  => result # "true"

\* C10. Exactly six fields: verifyCommit returns false for a commit object
\* that lacks one of the six fields or carries another field.
C10_ExactlySixFields ==
  ( /\ result # "none"
    /\ commit.k = "obj"
    /\ DOMAIN commit.o # CommitFields
    /\ verifyCommit(impl, base, vd) = "true" )
  => result = "false"

\* C11. The validator never throws: for every payload and type, a null or
\* non-object payload, hashtags or attachments that are not a sequence and a
\* null attachment element included, it returns true or false.
C11_ValidatorNeverThrows ==
  result # "none" => result \in {"true", "false"}

\* C12. createCommit's error outcome: when signing or the derivation of the
\* public key rejects the private key, no commit is returned (nothing of the
\* commit being assembled is at hand) and the call ends with the one creation
\* failure; when they succeed the commit returned has exactly the six fields;
\* while the loop runs, and when it is left, no error has been produced.
\* Stated for difficulties 0..MaxDifficulty and payloads that have a string
\* form.
C12_CreateOutcome ==
  /\ created = "error" =>
       /\ args.privateKey \notin PrivateKeys
       /\ commit = Undef
       /\ base = Undef
  /\ created = "ok" =>
       /\ args.privateKey \in PrivateKeys
       /\ commit = base \/ change # "none"
       /\ base.k = "obj"
       /\ DOMAIN base.o = CommitFields
  /\ pc \in {"mining", "sign"} => created = "none"

\* C12's case: the loop rejected at least one nonce, then signing rejected
\* the key.
C12_Witness ==
  /\ created = "error"
  /\ nonce > 1

C14_DigestBindsPayload ==
  change = "data" =>
    /\ hashStringOf(commit.o.data, commit.o.commitAt, commit.o.nonce)
         # hashStringOf(base.o.data, base.o.commitAt, base.o.nonce)
    /\ ( /\ result # "none"
         /\ SchemaConforms(base.o.data, base.o.type)
         /\ SchemaConforms(commit.o.data, commit.o.type) )
       => result # "true"

\* C15. Mining search order and termination. Within one createCommit call
\* the arguments and commitAt stay as they were at entry; each iteration
\* raises the nonce by one (so it takes 1, 2, 3, ...), computes the one
\* digest of that nonce, and leaves the loop iff that digest satisfies the
\* difficulty, without producing an error; while the loop runs no nonce tried
\* so far satisfied; and when a nonce still to come (up to MaxNonce)
\* satisfies the difficulty, createCommit returns.
C15_MiningOrder ==
  /\ [][(pc \in {"mining", "sign"}) =>
         (commitAt' = commitAt /\ args' = args)]_vars
  /\ [][(pc = "mining") =>
         ( /\ nonce' = nonce + 1
           /\ messageHash' = DigestAt(impl, args.data, commitAt, nonce')
           /\ pc' = (IF SatisfiesDifficulty(impl, messageHash',
                                            args.difficulty)
                     THEN "sign" ELSE "mining")
           /\ created' = "none" )]_vars
  /\ [](pc = "mining" =>
         \A k \in 1..nonce :
           ~SatisfiesDifficulty(impl, DigestAt(impl, args.data, commitAt, k),
                                args.difficulty))
  /\ ( /\ pc = "mining"
       /\ \E k \in (nonce + 1)..MaxNonce :
            SatisfiesDifficulty(impl, DigestAt(impl, args.data, commitAt, k),
                                args.difficulty) )
     ~> (pc = "idle" /\ created # "none")

\* C15's case: createCommit returned after the loop tried at least three
\* nonces.
C15_Witness ==
  /\ created \in {"ok", "error"}
  /\ nonce >= 3
  /\ args.difficulty > 0

\* C16. Call independence: a step of one call changes nothing of another
\* call, and whatever the order in which the steps of the calls in progress
\* were taken, a call that has ended ended as the same call run alone with
\* the same arguments and timestamp ends.
C16_CallIndependence ==
  /\ [][\A p, q \in CallIds :
         (p # q /\ calls'[p] # calls[p]) => calls'[q] = calls[q]]_vars
  /\ [](\A p \in CallIds :
         calls[p].pc = "done" =>
           IF calls[p].op = "create"
           THEN [res |-> calls[p].res, ret |-> calls[p].ret]
                  = createCommit(impl, calls[p].privateKey, calls[p].data,
                                 calls[p].type, calls[p].difficulty,
                                 calls[p].commitAt)
           ELSE calls[p].res
                  = verifyCommit(impl, calls[p].commit, calls[p].difficulty))

\* C16's case: a createCommit call has returned a commit after several
\* loop passes while another createCommit call is in its loop.
C16_Witness ==
  \E p, q \in CallIds :
    /\ p # q
    /\ calls[p].pc = "done"
    /\ calls[p].res = "ok"
    /\ calls[p].nonce >= 2
    /\ calls[q].pc = "mining"
    /\ calls[q].nonce >= 1

\* ------------------------------------------------------------------------
\* What part_003, the implementation that compares the type with === and
\* validates with every(), satisfies of the claims that index.js breaks.
RoundTrip_part003 == impl = "part003" => C1_RoundTrip
TrueOnlyIfAllThree_part003 == impl = "part003" => C3_TrueOnlyIfAllThree
BadHashtagRejected_part003 == impl = "part003" => C6_BadHashtagRejected
AttachmentRule_part003 == impl = "part003" => C7_AttachmentRule
MessageVariant_part003 == impl = "part003" => C8_MessageVariant
UnknownTypeRejected_part003 == impl = "part003" => C9_UnknownTypeRejected
\* Replacing signature or publicKey is detected by both implementations; so
\* is replacing commitAt. Replacing data is not, nor is replacing the nonce
\* by the string of its digits.
TamperDetected_OtherFields ==
  change \notin {"data", "nonce"} => C2_TamperDetected

====
